---- MODULE Spec2Model ----
(***************************************************************************)
(* Bayesian protein inference (BayesianProteinInferenceAlgorithm.cpp):     *)
(* the grid search over (alpha, beta, gamma), the per-CC inference         *)
(* functors, the write-back of posteriors and the indistinguishable-group  *)
(* annotator, as run by inferPosteriorProbabilities.                       *)
(*                                                                         *)
(* Probabilities are integers in units of 1/1000 (0.1 = 100, 0.001 = 1).   *)
(* A score is a 6-tuple: Lit(x) is the number x, Mass(...) is an entry of  *)
(* a posterior table returned by the belief propagation engine, kept       *)
(* symbolic in the variable, the outcome, the parameters of the message    *)
(* passer factory and the factors the engine was given.                    *)
(***************************************************************************)
EXTENDS Integers, Sequences, FiniteSets, TLC

VARIABLES
  pc,            \* position in inferPosteriorProbabilities
  param,         \* param_ (the Param object of the DefaultParamHandler)
  fg,            \* the identification graph: vertex id -> node
  ccs,           \* the connected components of the graph (sequence of vertex sets)
  pending,       \* CCs the running applyFunctorOnCCs has not yet visited
  counterIndex,  \* GridSearch: index triple of the point under evaluation
  bestValue,     \* GridSearch: best objective so far
  bestParams,    \* std::array<size_t,3> bestParams
  indistGroups,  \* the indistinguishable protein groups of proteinIDs[0]
  evalLog,       \* history: one record per call of the GridSearchEvaluator
  lastRun,       \* history: per CC, what the latest inference functor call did
  pgFormed,      \* history: the local ProteinGroup records the annotator built
  annotCount,    \* history: per CC, number of annotator calls
  requested,     \* history: the Param object handed to setParameters
  raised,        \* history: the CC whose functor call threw, 0 when none did
  order,         \* builder: the order in which boost::vertices yields the CC
  inserted,      \* builder: the factors handed to insert_dependency, in call order
  running,       \* parallel driver: the CCs whose functor call is under way
  inflight,      \* parallel driver: per CC, the posteriors still to be written back
  fgAtCall,      \* history: the graph when the running applyFunctorOnCCs was called
  bpGraph,       \* engine: the factory, factors and posterior variables it was built on
  bpScheduler,   \* engine: dampening, convergence threshold and iteration limit
  messages,      \* engine: the message on every directed edge of the factor graph
  queue,         \* engine: the pending delta of every directed edge
  iterations,    \* engine: number of scheduler steps taken
  warnings,      \* engine: the warnings emitted
  estimated,     \* engine: what estimate_posteriors returned
  threshold_,    \* IsoSpec: the threshold member, in hundredths
  absolute_,     \* IsoSpec: the absolute member
  masses_,       \* IsoSpec: the stored masses
  probabilities_,\* IsoSpec: the stored probabilities
  assertions,    \* build option: the precondition macros are compiled in
  isoLast        \* history: the latest IsoSpec::run call and how it ended

\* the variables of inferPosteriorProbabilities
runVars == <<pc, param, fg, ccs, pending, counterIndex, bestValue, bestParams,
             indistGroups, evalLog, lastRun, pgFormed, annotCount, requested, raised>>

\* the variables of the factor graph construction looked at on its own
builderVars == <<order, inserted>>

\* the variables of an applyFunctorOnCCs call that runs its CCs in parallel
parVars == <<running, inflight, fgAtCall>>

\* the variables of one functor call with the engine run message by message
lbpVars == <<bpGraph, bpScheduler, messages, queue, iterations, warnings, estimated>>

\* the variables of an IsoSpec object and of the calls made on it
isoVars == <<threshold_, absolute_, masses_, probabilities_, assertions, isoLast>>

vars == <<runVars, builderVars, parVars, lbpVars, isoVars>>

----------------------------------------------------------------------------
(* Bounds and program constants *)

\* largest value the external FDR objective returns in the model
MaxJ == 0

\* the largest iteration limit the scheduler is run under
MaxIter == 8

\* start value handed to GridSearch::evaluate
StartValue == -1

\* objective values: below, at and above the start value
JValues == (StartValue - 1)..MaxJ

\* what an out-of-range read of a std::vector<double> may yield
Garbage == {0, 250, 1000, 2000}

gamma_search == <<500>>
beta_search == <<1>>
alpha_search == <<100, 300, 500, 700, 900>>

\* the three grids in the order they are handed to the GridSearch constructor
GridAxes == <<alpha_search, beta_search, gamma_search>>

SchedulingTypes == {"priority", "fifo", "random_spanning_tree"}

\* 1ul << 32 is above the integers of the model: the default of
\* max_nr_iterations stands as the largest integer there is
MaxNrIterations == 2147483647

\* defaults_ as written by the constructor; convergence_threshold is in units
\* of 1e-5, every other fraction in units of 1/1000
Defaults ==
  [annotate_groups_only |-> FALSE,
   top_PSMs |-> 1,
   prot_prior |-> 900,
   pep_emission |-> 100,
   pep_spurious_emission |-> 1,
   scheduling_type |-> "priority",
   convergence_threshold |-> 1,
   dampening_lambda |-> 1,
   max_nr_iterations |-> MaxNrIterations,
   aucweight |-> 200]

\* the restrictions the constructor declares: setMinInt, setMinFloat,
\* setMaxFloat and setValidStrings; a parameter without an entry has none
MinRestriction ==
  [top_PSMs |-> 0, prot_prior |-> 0, pep_emission |-> 0,
   pep_spurious_emission |-> 0, aucweight |-> 0]

MaxRestriction ==
  [prot_prior |-> 1000, pep_emission |-> 1000,
   pep_spurious_emission |-> 1000, aucweight |-> 1000]

ValidStrings == [scheduling_type |-> SchedulingTypes]

\* Param::checkDefaults as run by DefaultParamHandler::setParameters: TRUE when
\* no value violates a declared restriction
checkDefaults(cfg) ==
  /\ \A k \in DOMAIN MinRestriction : cfg[k] >= MinRestriction[k]
  /\ \A k \in DOMAIN MaxRestriction : cfg[k] <= MaxRestriction[k]
  /\ \A k \in DOMAIN ValidStrings : cfg[k] \in ValidStrings[k]

\* the Param objects a caller hands to setParameters: the defaults with one
\* entry changed
UserConfigs ==
  {Defaults, [Defaults EXCEPT !.annotate_groups_only = TRUE]}
  \cup {[Defaults EXCEPT !.scheduling_type = s] : s \in SchedulingTypes \cup {"lifo"}}
  \cup {[Defaults EXCEPT !.top_PSMs = x] : x \in {-1}}
  \cup {[Defaults EXCEPT !.prot_prior = x] : x \in {-1, 1001}}
  \cup {[Defaults EXCEPT !.pep_emission = x] : x \in {-1, 1001}}
  \cup {[Defaults EXCEPT !.pep_spurious_emission = x] : x \in {-1, 1001}}
  \cup {[Defaults EXCEPT !.aucweight = x] : x \in {-1, 1001}}
  \cup {[Defaults EXCEPT !.dampening_lambda = x] : x \in {1000}}
  \cup {[Defaults EXCEPT !.convergence_threshold = x] : x \in {0}}

----------------------------------------------------------------------------
(* Scores *)

Lit(x) == <<0, x, 0, 0, 0, <<>>>>

\* entry for outcome k of the posterior of variable v under factory (a, b, g)
\* on the factor graph made of the factors fs
Mass(v, k, a, b, g, fs) == <<1 + k, v, a, b, g, fs>>

\* a score without the factors it was computed from
Entry(s) == SubSeq(s, 1, 5)

----------------------------------------------------------------------------
(* The identification graph handed over by IDBoostGraph *)

Protein == 0
ProteinGroup == 1
PeptideGroup == 2
Peptide == 3
PSM == 6

Node(k, s, e, acc, nb) ==
  [which |-> k, score |-> s, evidences |-> e, accession |-> acc, adj |-> nb]

\* one CC with a protein group, one protein with a direct PSM, one lone protein
InputGraph ==
  [v \in 1..9 |->
     CASE v = 1 -> Node(Protein, Lit(10), 0, "P1", <<3>>)
       [] v = 2 -> Node(Protein, Lit(20), 0, "P2", <<3>>)
       [] v = 3 -> Node(ProteinGroup, Lit(0), 0, "", <<1, 2, 4>>)
       [] v = 4 -> Node(PeptideGroup, Lit(0), 0, "", <<3, 5>>)
       [] v = 5 -> Node(Peptide, Lit(0), 0, "", <<4, 6>>)
       [] v = 6 -> Node(PSM, Lit(900), 2, "", <<5>>)
       [] v = 7 -> Node(Protein, Lit(30), 0, "P3", <<8>>)
       [] v = 8 -> Node(PSM, Lit(950), 1, "", <<7>>)
       [] v = 9 -> Node(Protein, Lit(40), 0, "P4", <<>>)]

Range(s) == {s[i] : i \in DOMAIN s}

\* one CC in which a PSM lies under two peptides
SharedPSMGraph ==
  [v \in 1..5 |->
     CASE v = 1 -> Node(Protein, Lit(10), 0, "P1", <<2>>)
       [] v = 2 -> Node(ProteinGroup, Lit(0), 0, "", <<1, 3, 4>>)
       [] v = 3 -> Node(Peptide, Lit(0), 0, "", <<2, 5>>)
       [] v = 4 -> Node(Peptide, Lit(0), 0, "", <<2, 5>>)
       [] v = 5 -> Node(PSM, Lit(900), 1, "", <<3, 4>>)]

RECURSIVE Reach(_, _)
Reach(g, S) ==
  LET T == S \cup UNION {Range(g[v].adj) : v \in S}
  IN IF T = S THEN S ELSE Reach(g, T)

RECURSIVE SortedSeq(_)
SortedSeq(S) ==
  IF S = {} THEN <<>>
  ELSE LET m == CHOOSE x \in S : \A y \in S : x <= y
       IN <<m>> \o SortedSeq(S \ {m})

RECURSIVE Components(_, _)
Components(g, left) ==
  IF left = {} THEN <<>>
  ELSE LET m == CHOOSE x \in left : \A y \in left : x <= y
           c == Reach(g, {m})
       IN <<c>> \o Components(g, left \ c)

\* IDBoostGraph::computeConnectedComponents
computeConnectedComponents(g) == Components(g, DOMAIN g)

----------------------------------------------------------------------------
(* Message passer factory, Bethe builder and belief propagation engine *)

\* MessagePasserFactory<unsigned long> mpf(alpha, beta, gamma, p)
MessagePasserFactory(a, b, g, p) == [alpha |-> a, beta |-> b, gamma |-> g, p |-> p]

Factor(t, vs, n, s) == [type |-> t, vars |-> vs, n |-> n, score |-> s]

createSumEvidenceFactor(mpf, n, parent, child) ==
  Factor("SumEvidenceFactor", <<parent, child>>, n, Lit(0))

createPeptideEvidenceFactor(mpf, v, s) ==
  Factor("PeptideEvidenceFactor", <<v>>, 0, s)

createPeptideProbabilisticAdderFactor(mpf, parents, out) ==
  Factor("PeptideProbabilisticAdderFactor", parents \o <<out>>, 0, Lit(0))

createProteinFactor(mpf, v) ==
  Factor("ProteinFactor", <<v>>, 0, Lit(0))

\* support of a protein posterior: the prior table P(v=1) = gamma, P(v=0) = 1 - gamma
\* leaves no mass on an outcome of prior probability zero
PosteriorSupport(mpf) ==
  IF mpf.gamma = 0 THEN <<0, 0>>
  ELSE IF mpf.gamma = 1000 THEN <<1, 1>>
  ELSE <<0, 1>>

\* the PMF of variable v: a table indexed from 0 over first_support..last_support
PosteriorPMF(mpf, factors, v) ==
  LET sup == PosteriorSupport(mpf)
  IN [first_support |-> sup[1],
      last_support |-> sup[2],
      table |-> [i \in 0..(sup[2] - sup[1]) |->
                   Mass(v, sup[1] + i, mpf.alpha, mpf.beta, mpf.gamma, factors)]]

\* BeliefPropagationInferenceEngine::estimate_posteriors: one posterior per
\* requested variable tuple, in the order requested
estimate_posteriors(mpf, factors, posteriorVars) ==
  [i \in 1..Len(posteriorVars) |->
     [ordered_variables |-> posteriorVars[i],
      pmf |-> PosteriorPMF(mpf, factors, posteriorVars[i][1])]]

\* IDBoostGraph::SetPosteriorVisitor: proteins take the posterior, other kinds ignore it
SetPosteriorVisitor(node, posterior) ==
  IF node.which = Protein THEN [node EXCEPT !.score = posterior] ELSE node

\* in[0]
InFront(in) == IF Len(in) > 0 THEN in[1] ELSE 0

RECURSIVE Flatten(_)
Flatten(ss) == IF ss = <<>> THEN <<>> ELSE Head(ss) \o Flatten(Tail(ss))

----------------------------------------------------------------------------
(* GraphInferenceFunctor *)

\* boost::num_vertices(fg) >= 2
InferenceGuardOne(n) == n >= 1

InferenceGuard(n) == n >= 2

\* boost::vertices(fg): the vertices of the CC the functor is called on
VerticesOfWholeGraph(g, cc) == SortedSeq(DOMAIN g)

Vertices(g, cc) == SortedSeq(cc)

\* the neighbours of u of strictly smaller kind, in adjacency order
InNeighbours(g, u) ==
  SelectSeq(g[u].adj, LAMBDA nb : g[nb].which < g[u].which)

\* in.clear()
ClearSkipped(in) == in

Clear(in) == <<>>

\* the insert_dependency calls made for vertex u, whose lower neighbours are in
VertexFactorsWithPrior(g, mpf, u, in) ==
     IF g[u].which = 6
       THEN <<createSumEvidenceFactor(mpf, g[u].evidences, InFront(in), u),
              createPeptideEvidenceFactor(mpf, u, g[u].score)>>
     ELSE IF g[u].which = 2
       THEN <<createPeptideProbabilisticAdderFactor(mpf, in, u)>>
     ELSE IF g[u].which = 1
       THEN <<createPeptideProbabilisticAdderFactor(mpf, in, u)>>
     ELSE IF g[u].which = 0
       THEN <<Factor("ProteinFactor", <<u>>, 0, g[u].score)>>
     ELSE <<>>

VertexFactors(g, mpf, u, in) ==
     IF g[u].which = 6
       THEN <<createSumEvidenceFactor(mpf, g[u].evidences, InFront(in), u),
              createPeptideEvidenceFactor(mpf, u, g[u].score)>>
     ELSE IF g[u].which = 2
       THEN <<createPeptideProbabilisticAdderFactor(mpf, in, u)>>
     ELSE IF g[u].which = 1
       THEN <<createPeptideProbabilisticAdderFactor(mpf, in, u)>>
     ELSE IF g[u].which = 0
       THEN <<createProteinFactor(mpf, u)>>
     ELSE <<>>

\* the loop over the vertices us: in is cleared and refilled for each vertex
RECURSIVE InsertDependencies(_, _, _, _)
InsertDependencies(g, mpf, us, in) ==
  IF us = <<>> THEN <<>>
  ELSE LET u == Head(us)
           inHere == Clear(in) \o InNeighbours(g, u)
       IN VertexFactors(g, mpf, u, inHere)
            \o InsertDependencies(g, mpf, Tail(us), inHere)

\* posteriorVars.push_back({*ui}) for proteins
VertexPosteriorVars(g, u) ==
  IF g[u].which = 0 THEN <<(<<u>>)>> ELSE <<>>

\* the scheduler constructed for the CC
Scheduler(p) == "priority"

\* the arguments the scheduler is constructed with
SchedulerArguments(p) ==
  [dampening_lambda |-> p.dampening_lambda,
   convergence_threshold |-> p.convergence_threshold,
   max_nr_iterations |-> p.max_nr_iterations]

\* the posteriors the loop over posteriorFactors goes through, ws the warnings
\* of the engine
PosteriorsToWriteWhenConverged(pfs, ws) == IF ws = <<>> THEN pfs ELSE <<>>

PosteriorsToWrite(pfs, ws) == pfs

\* P(v = 1) read off the posterior PMF
PosteriorOfFirstEntry(pmf) ==
  IF 1 >= pmf.first_support /\ 1 <= pmf.last_support
    THEN pmf.table[0]
    ELSE Lit(0)

PosteriorOf(pmf) ==
  IF 1 >= pmf.first_support /\ 1 <= pmf.last_support
    THEN pmf.table[1 - pmf.first_support]
    ELSE Lit(0)

\* boost::apply_visitor(bound_visitor, fg[nodeId])
WriteBackAllProteins(g, nodeId, posterior) ==
  [v \in DOMAIN g |-> SetPosteriorVisitor(g[v], posterior)]

WriteBackNoDispatch(g, nodeId, posterior) ==
  [v \in DOMAIN g |->
     IF v = nodeId \/ v \in Range(g[nodeId].adj)
       THEN [g[v] EXCEPT !.score = posterior]
       ELSE g[v]]

WriteBack(g, nodeId, posterior) ==
  [g EXCEPT ![nodeId] = SetPosteriorVisitor(@, posterior)]

\* the loop over posteriorFactors
RECURSIVE WritePosteriors(_, _)
WritePosteriors(g, pfs) ==
  IF pfs = <<>> THEN g
  ELSE LET posteriorFactor == Head(pfs)
           nodeId == posteriorFactor.ordered_variables[1]
           posterior == PosteriorOf(posteriorFactor.pmf)
       IN WritePosteriors(WriteBack(g, nodeId, posterior), Tail(pfs))

\* GraphInferenceFunctor::operator()(fg) on the CC with vertex set cc
GraphInferenceFunctor(g, cc, p) ==
  IF InferenceGuard(Cardinality(cc))
    THEN LET mpf == MessagePasserFactory(p.pep_emission, p.pep_spurious_emission,
                                         p.prot_prior, 1)
             us == Vertices(g, cc)
             factors == InsertDependencies(g, mpf, us, <<>>)
             posteriorVars ==
               Flatten([i \in 1..Len(us) |-> VertexPosteriorVars(g, us[i])])
             posteriorFactors == estimate_posteriors(mpf, factors, posteriorVars)
         IN [fg |-> WritePosteriors(g, posteriorFactors),
             posteriorFactors |-> posteriorFactors,
             ran |-> TRUE,
             factors |-> factors,
             posteriorVars |-> posteriorVars,
             scheduler |-> Scheduler(p),
             visited |-> [i \in 1..Len(posteriorFactors) |->
                            posteriorFactors[i].ordered_variables[1]]]
    ELSE [fg |-> g, posteriorFactors |-> <<>>, ran |-> FALSE, factors |-> <<>>,
          posteriorVars |-> <<>>, scheduler |-> "none", visited |-> <<>>]

----------------------------------------------------------------------------
(* ExtendedGraphInferenceFunctor *)

\* boost::num_vertices(fg) >= 2
ExtInferenceGuardThree(n) == n >= 3

ExtInferenceGuard(n) == n >= 2

\* boost::vertices(fg): the vertices of the CC the functor is called on
ExtVertices(g, cc) == SortedSeq(cc)

\* the neighbours of u of strictly smaller kind, in adjacency order
ExtInNeighbours(g, u) ==
  SelectSeq(g[u].adj, LAMBDA nb : g[nb].which < g[u].which)

\* in.clear()
ExtClear(in) == <<>>

\* the insert_dependency calls made for vertex u, whose lower neighbours are in
ExtVertexFactors(g, mpf, u, in) ==
     IF g[u].which = 6
       THEN <<createSumEvidenceFactor(mpf, g[u].evidences, InFront(in), u),
              createPeptideEvidenceFactor(mpf, u, g[u].score)>>
     ELSE IF g[u].which = 2
       THEN <<createPeptideProbabilisticAdderFactor(mpf, in, u)>>
     ELSE IF g[u].which = 1
       THEN <<createPeptideProbabilisticAdderFactor(mpf, in, u)>>
     ELSE IF g[u].which = 0
       THEN <<createProteinFactor(mpf, u)>>
     ELSE <<>>

\* the loop over the vertices us: in is cleared and refilled for each vertex
RECURSIVE ExtInsertDependencies(_, _, _, _)
ExtInsertDependencies(g, mpf, us, in) ==
  IF us = <<>> THEN <<>>
  ELSE LET u == Head(us)
           inHere == ExtClear(in) \o ExtInNeighbours(g, u)
       IN ExtVertexFactors(g, mpf, u, inHere)
            \o ExtInsertDependencies(g, mpf, Tail(us), inHere)

\* posteriorVars.push_back({*ui}) for proteins
ExtVertexPosteriorVars(g, u) ==
  IF g[u].which = 0 THEN <<(<<u>>)>> ELSE <<>>

\* the scheduler constructed for the CC
ExtScheduler(p) == "priority"

\* P(v = 1) read off the posterior PMF
ExtPosteriorOf(pmf) ==
  IF 1 >= pmf.first_support /\ 1 <= pmf.last_support
    THEN pmf.table[1 - pmf.first_support]
    ELSE Lit(0)

\* boost::apply_visitor(bound_visitor, fg[nodeId])
ExtWriteBack(g, nodeId, posterior) ==
  [g EXCEPT ![nodeId] = SetPosteriorVisitor(@, posterior)]

\* the loop over posteriorFactors
RECURSIVE ExtWritePosteriors(_, _)
ExtWritePosteriors(g, pfs) ==
  IF pfs = <<>> THEN g
  ELSE LET posteriorFactor == Head(pfs)
           nodeId == posteriorFactor.ordered_variables[1]
           posterior == ExtPosteriorOf(posteriorFactor.pmf)
       IN ExtWritePosteriors(ExtWriteBack(g, nodeId, posterior), Tail(pfs))

\* ExtendedGraphInferenceFunctor::operator()(fg) on the CC with vertex set cc
ExtendedGraphInferenceFunctor(g, cc, p) ==
  IF ExtInferenceGuard(Cardinality(cc))
    THEN LET mpf == MessagePasserFactory(p.pep_emission, p.pep_spurious_emission,
                                         p.prot_prior, 1)
             us == ExtVertices(g, cc)
             factors == ExtInsertDependencies(g, mpf, us, <<>>)
             posteriorVars ==
               Flatten([i \in 1..Len(us) |-> ExtVertexPosteriorVars(g, us[i])])
             posteriorFactors == estimate_posteriors(mpf, factors, posteriorVars)
         IN [fg |-> ExtWritePosteriors(g, posteriorFactors),
             posteriorFactors |-> posteriorFactors,
             ran |-> TRUE,
             factors |-> factors,
             posteriorVars |-> posteriorVars,
             scheduler |-> ExtScheduler(p),
             visited |-> [i \in 1..Len(posteriorFactors) |->
                            posteriorFactors[i].ordered_variables[1]]]
    ELSE [fg |-> g, posteriorFactors |-> <<>>, ran |-> FALSE, factors |-> <<>>,
          posteriorVars |-> <<>>, scheduler |-> "none", visited |-> <<>>]

----------------------------------------------------------------------------
(* AnnotateIndistGroupsFunctor *)

\* boost::num_vertices(fg) >= 2
AnnotateGuard(n) == n >= 2

\* a variant that tests the neighbour for kind 1 instead of kind 0
ProteinNeighboursOfGroupKind(g, u) ==
  SelectSeq(g[u].adj, LAMBDA nb : g[nb].which = 1)

\* the adjacent vertices of kind Protein, in adjacency order
ProteinNeighbours(g, u) ==
  SelectSeq(g[u].adj, LAMBDA nb : g[nb].which = 0)

\* the local ProteinGroup pg built for the prot group vertex u; proteinPtr is
\* the last protein neighbour iterated, 0 when there was none
AnnotateVertex(g, u) ==
  LET prots == ProteinNeighbours(g, u)
      proteinPtr == IF prots = <<>> THEN 0 ELSE prots[Len(prots)]
  IN [vertex |-> u,
      accessions |-> [i \in 1..Len(prots) |-> g[prots[i]].accession],
      members |-> prots,
      proteinPtr |-> proteinPtr,
      probability |-> IF proteinPtr = 0 THEN Lit(-1) ELSE g[proteinPtr].score]

\* AnnotateIndistGroupsFunctor::operator()(fg): the pg records it builds, in
\* vertex order; each is a local of the loop body and is dropped at its end
AnnotateIndistGroupsFunctor(g, cc) ==
  IF AnnotateGuard(Cardinality(cc))
    THEN LET us == SelectSeq(SortedSeq(cc), LAMBDA u : g[u].which = 1)
         IN [i \in 1..Len(us) |-> AnnotateVertex(g, us[i])]
    ELSE <<>>

----------------------------------------------------------------------------
(* GridSearch and GridSearchEvaluator *)

\* the grid point at an index triple (indices count from 0)
GridPoint(idx) ==
  <<GridAxes[1][idx[1] + 1], GridAxes[2][idx[2] + 1], GridAxes[3][idx[3] + 1]>>

GridIndices ==
  {<<i, j, k>> : i \in 0..(Len(GridAxes[1]) - 1),
                 j \in 0..(Len(GridAxes[2]) - 1),
                 k \in 0..(Len(GridAxes[3]) - 1)}

\* the scan order: first axis outermost, last axis innermost
NextIndex(idx) ==
  IF idx[3] + 1 < Len(GridAxes[3]) THEN <<idx[1], idx[2], idx[3] + 1>>
  ELSE IF idx[2] + 1 < Len(GridAxes[2]) THEN <<idx[1], idx[2] + 1, 0>>
  ELSE <<idx[1] + 1, 0, 0>>

ScanEnded(idx) == idx[1] >= Len(GridAxes[1])

\* a point replaces the best one when its value is larger than the best so far
Improves(j, best) == j > best

\* the three setValue calls of GridSearchEvaluator::operator()
EvaluatorParamsSwapped(p, alpha, beta, gamma) ==
  [p EXCEPT !.prot_prior = alpha, !.pep_emission = gamma,
            !.pep_spurious_emission = beta]

EvaluatorParams(p, alpha, beta, gamma) ==
  [p EXCEPT !.prot_prior = gamma, !.pep_emission = alpha,
            !.pep_spurious_emission = beta]

----------------------------------------------------------------------------
(* inferPosteriorProbabilities *)

\* the order of the statements of the branch that is taken (oldway = false)
StageAfterAnnotateFirst(stage) ==
  CASE stage = "build" -> "grid"
    [] stage = "grid" -> "best"
    [] stage = "best" -> "annotate"
    [] stage = "annotate" -> "final"
    [] stage = "final" -> "done"

StageAfter(stage) ==
  CASE stage = "build" -> "grid"
    [] stage = "grid" -> "best"
    [] stage = "best" -> "final"
    [] stage = "final" -> "annotate"
    [] stage = "annotate" -> "done"

\* which entry of bestParams indexes which grid
bestGammaIndex(bp) == bp[1]
bestBetaIndex(bp) == bp[2]
bestAlphaIndex(bp) == bp[3]

\* vec[i] of a std::vector: the element, or anything when i is out of range
VecRead(vec, i) == IF i < Len(vec) THEN {vec[i + 1]} ELSE Garbage

AllCCs == 1..Len(ccs)

NoRun ==
  [functor |-> "none", ran |-> FALSE, factors |-> <<>>, posteriorVars |-> <<>>,
   scheduler |-> "none", visited |-> <<>>, mpf |-> <<0, 0, 0>>]

RunRecord(name, r, p) ==
  [functor |-> name, ran |-> r.ran, factors |-> r.factors,
   posteriorVars |-> r.posteriorVars, scheduler |-> r.scheduler,
   visited |-> r.visited,
   mpf |-> <<p.pep_emission, p.pep_spurious_emission, p.prot_prior>>]

Scores(g) == [v \in DOMAIN g |-> g[v].score]

\* IsoSpec::IsoSpec(): threshold_(0.01), absolute_(false)
DefaultThreshold == 1

\* no call has been made on the IsoSpec object
NoCall == [op |-> "none", outcome |-> "none", args |-> <<>>,
           before |-> <<<<>>, <<>>>>, result |-> <<>>]

\* a default-constructed IsoSpec object on which nothing is called
IsoIdle ==
  /\ threshold_ = DefaultThreshold
  /\ absolute_ = FALSE
  /\ masses_ = <<>>
  /\ probabilities_ = <<>>
  /\ assertions = FALSE
  /\ isoLast = NoCall

\* the failed CCs the caller is told about: inferPosteriorProbabilities
\* returns void and writes no such list to proteinIDs
ReportedFailures == {}

Init ==
  /\ IsoIdle
  /\ pc = "configure"
  /\ param = Defaults
  /\ requested = Defaults
  /\ raised = 0
  /\ order = <<>>
  /\ inserted = <<>>
  /\ running = {}
  /\ inflight = <<>>
  /\ fgAtCall = <<>>
  /\ bpGraph = <<>>
  /\ bpScheduler = <<>>
  /\ messages = <<>>
  /\ queue = <<>>
  /\ iterations = 0
  /\ warnings = <<>>
  /\ estimated = <<>>
  /\ fg = InputGraph
  /\ ccs = <<>>
  /\ pending = {}
  /\ counterIndex = <<0, 0, 0>>
  /\ bestValue = StartValue
  /\ bestParams = <<0, 0, 0>>
  /\ indistGroups = <<>>
  /\ evalLog = <<>>
  /\ lastRun = <<>>
  /\ pgFormed = <<>>
  /\ annotCount = <<>>

\* setParameters(cfg): checkDefaults throws InvalidParameter on a violated
\* restriction, otherwise cfg becomes param_
SetParameters(cfg) ==
  /\ pc = "configure"
  /\ requested' = cfg
  /\ IF checkDefaults(cfg)
       THEN param' = cfg /\ pc' = "build"
       ELSE pc' = "config_error" /\ UNCHANGED param
  /\ UNCHANGED isoVars
  /\ UNCHANGED <<fg, ccs, pending, counterIndex, bestValue, bestParams,
                 indistGroups, evalLog, lastRun, pgFormed, annotCount, raised, builderVars, parVars, lbpVars>>

\* IDBoostGraph ibg; buildGraphWithRunInfo; computeConnectedComponents;
\* GridSearch gs{alpha_search, beta_search, gamma_search}; bestParams{{0, 0, 0}}
BuildGraph ==
  /\ pc = "build"
  /\ ccs' = computeConnectedComponents(fg)
  /\ lastRun' = [c \in 1..Len(ccs') |-> NoRun]
  /\ annotCount' = [c \in 1..Len(ccs') |-> 0]
  /\ counterIndex' = <<0, 0, 0>>
  /\ bestValue' = StartValue
  /\ bestParams' = <<0, 0, 0>>
  /\ pending' = 1..Len(ccs')
  /\ pc' = StageAfter("build")
  /\ UNCHANGED isoVars
  /\ UNCHANGED <<param, fg, indistGroups, evalLog, pgFormed,
                 requested, raised, builderVars, parVars, lbpVars>>

\* GridSearchEvaluator::operator(): the setValue calls for the next grid point
EvaluatorSetParams ==
  /\ pc = "grid"
  /\ ~ScanEnded(counterIndex)
  /\ LET pt == GridPoint(counterIndex)
     IN param' = EvaluatorParams(param, pt[1], pt[2], pt[3])
  /\ pending' = AllCCs
  /\ pc' = "eval"
  /\ UNCHANGED isoVars
  /\ UNCHANGED <<fg, ccs, counterIndex, bestValue, bestParams, indistGroups,
                 evalLog, lastRun, pgFormed, annotCount,
                 requested, raised, builderVars, parVars, lbpVars>>

\* ibg_.applyFunctorOnCCs(GraphInferenceFunctor(param_)): one CC
EvaluatorApplyFunctor(c) ==
  /\ pc = "eval"
  /\ c \in pending
  /\ LET r == GraphInferenceFunctor(fg, ccs[c], param)
     IN /\ fg' = r.fg
        /\ lastRun' = [lastRun EXCEPT ![c] = RunRecord("GraphInferenceFunctor", r, param)]
  /\ pending' = pending \ {c}
  /\ UNCHANGED isoVars
  /\ UNCHANGED <<pc, param, ccs, counterIndex, bestValue, bestParams,
                 indistGroups, evalLog, pgFormed, annotCount,
                 requested, raised, builderVars, parVars, lbpVars>>

\* an exception thrown inside the functor call on one CC (by the engine or the
\* factory): the functor and the evaluator have no handler, so it leaves
\* applyFunctorOnCCs and inferPosteriorProbabilities before the write-back
EvaluatorFunctorThrows(c) ==
  /\ pc = "eval"
  /\ c \in pending
  /\ InferenceGuard(Cardinality(ccs[c]))
  /\ raised' = c
  /\ pc' = "aborted"
  /\ UNCHANGED isoVars
  /\ UNCHANGED <<param, fg, ccs, pending, counterIndex, bestValue, bestParams,
                 indistGroups, evalLog, lastRun, pgFormed, annotCount, requested, builderVars, parVars, lbpVars>>

\* fdr.applyEvaluateProteinIDs(prots_) returns j; GridSearch compares it with
\* the best value and moves to the next point
EvaluatorObjective(j) ==
  /\ pc = "eval"
  /\ pending = {}
  /\ evalLog' = Append(evalLog, [index |-> counterIndex,
                                 point |-> GridPoint(counterIndex),
                                 J |-> j,
                                 scores |-> Scores(fg)])
  /\ IF Improves(j, bestValue)
       THEN bestValue' = j /\ bestParams' = counterIndex
       ELSE UNCHANGED <<bestValue, bestParams>>
  /\ counterIndex' = NextIndex(counterIndex)
  /\ IF ScanEnded(counterIndex')
       THEN pc' = StageAfter("grid") /\ pending' = AllCCs
       ELSE pc' = "grid" /\ UNCHANGED pending
  /\ UNCHANGED isoVars
  /\ UNCHANGED <<param, fg, ccs, indistGroups, lastRun, pgFormed, annotCount,
                 requested, raised, builderVars, parVars, lbpVars>>

\* bestGamma, bestBeta, bestAlpha are read and written to param_
ReadBest ==
  /\ pc = "best"
  /\ \E bestGamma \in VecRead(gamma_search, bestGammaIndex(bestParams)),
        bestBeta \in VecRead(beta_search, bestBetaIndex(bestParams)),
        bestAlpha \in VecRead(alpha_search, bestAlphaIndex(bestParams)) :
       param' = [param EXCEPT !.prot_prior = bestGamma,
                              !.pep_emission = bestAlpha,
                              !.pep_spurious_emission = bestBeta]
  /\ pending' = AllCCs
  /\ pc' = StageAfter("best")
  /\ UNCHANGED isoVars
  /\ UNCHANGED <<fg, ccs, counterIndex, bestValue, bestParams, indistGroups,
                 evalLog, lastRun, pgFormed, annotCount,
                 requested, raised, builderVars, parVars, lbpVars>>

\* ibg.applyFunctorOnCCs(ExtendedGraphInferenceFunctor(param_)): one CC
FinalApplyFunctor(c) ==
  /\ pc = "final"
  /\ c \in pending
  /\ LET r == ExtendedGraphInferenceFunctor(fg, ccs[c], param)
     IN /\ fg' = r.fg
        /\ lastRun' = [lastRun EXCEPT
                         ![c] = RunRecord("ExtendedGraphInferenceFunctor", r, param)]
  /\ pending' = pending \ {c}
  /\ UNCHANGED isoVars
  /\ UNCHANGED <<pc, param, ccs, counterIndex, bestValue, bestParams,
                 indistGroups, evalLog, pgFormed, annotCount,
                 requested, raised, builderVars, parVars, lbpVars>>

\* an exception thrown inside the final functor call on one CC
FinalFunctorThrows(c) ==
  /\ pc = "final"
  /\ c \in pending
  /\ ExtInferenceGuard(Cardinality(ccs[c]))
  /\ raised' = c
  /\ pc' = "aborted"
  /\ UNCHANGED isoVars
  /\ UNCHANGED <<param, fg, ccs, pending, counterIndex, bestValue, bestParams,
                 indistGroups, evalLog, lastRun, pgFormed, annotCount, requested, builderVars, parVars, lbpVars>>

\* the final applyFunctorOnCCs returns
FinalDone ==
  /\ pc = "final"
  /\ pending = {}
  /\ pc' = StageAfter("final")
  /\ pending' = AllCCs
  /\ UNCHANGED isoVars
  /\ UNCHANGED <<param, fg, ccs, counterIndex, bestValue, bestParams,
                 indistGroups, evalLog, lastRun, pgFormed, annotCount,
                 requested, raised, builderVars, parVars, lbpVars>>

\* ibg.applyFunctorOnCCs(AnnotateIndistGroupsFunctor()): one CC
AnnotateCC(c) ==
  /\ pc = "annotate"
  /\ c \in pending
  /\ LET formed == AnnotateIndistGroupsFunctor(fg, ccs[c])
     IN /\ pgFormed' = pgFormed \o formed
        /\ IF \E i \in 1..Len(formed) : formed[i].proteinPtr = 0
             THEN pc' = "crashed"
             ELSE UNCHANGED pc
  /\ annotCount' = [annotCount EXCEPT ![c] = @ + 1]
  /\ pending' = pending \ {c}
  /\ UNCHANGED isoVars
  /\ UNCHANGED <<param, fg, ccs, counterIndex, bestValue, bestParams,
                 indistGroups, evalLog, lastRun,
                 requested, raised, builderVars, parVars, lbpVars>>

\* the annotating applyFunctorOnCCs returns
AnnotateDone ==
  /\ pc = "annotate"
  /\ pending = {}
  /\ pc' = StageAfter("annotate")
  /\ pending' = AllCCs
  /\ UNCHANGED isoVars
  /\ UNCHANGED <<param, fg, ccs, counterIndex, bestValue, bestParams,
                 indistGroups, evalLog, lastRun, pgFormed, annotCount,
                 requested, raised, builderVars, parVars, lbpVars>>

Next ==
  \/ \E cfg \in UserConfigs : SetParameters(cfg)
  \/ BuildGraph
  \/ EvaluatorSetParams
  \/ \E c \in pending : EvaluatorApplyFunctor(c)
  \/ \E c \in pending : EvaluatorFunctorThrows(c)
  \/ \E j \in JValues : EvaluatorObjective(j)
  \/ ReadBest
  \/ \E c \in pending : FinalApplyFunctor(c)
  \/ \E c \in pending : FinalFunctorThrows(c)
  \/ FinalDone
  \/ \E c \in pending : AnnotateCC(c)
  \/ AnnotateDone

Spec == Init /\ [][Next]_vars

----------------------------------------------------------------------------
(* The factor graph construction on its own: the loop of the functor over   *)
(* the vertices of one CC, for every order boost::vertices may yield them in *)

Orders(S) ==
  {o \in [1..Cardinality(S) -> S] : \A i, j \in 1..Cardinality(S) : o[i] = o[j] => i = j}

\* the identification graphs the construction is looked at on
BuilderGraphs == {InputGraph, SharedPSMGraph}

InitBuilder ==
  /\ IsoIdle
  /\ pc = "loop"
  /\ param = Defaults
  /\ fg \in BuilderGraphs
  /\ ccs = computeConnectedComponents(fg)
  /\ pending = {}
  /\ counterIndex = <<0, 0, 0>>
  /\ bestValue = StartValue
  /\ bestParams = <<0, 0, 0>>
  /\ indistGroups = <<>>
  /\ evalLog = <<>>
  /\ lastRun = <<>>
  /\ pgFormed = <<>>
  /\ annotCount = <<>>
  /\ requested = Defaults
  /\ raised = 0
  /\ \E c \in 1..Len(ccs) :
       /\ InferenceGuard(Cardinality(ccs[c]))
       /\ order \in Orders(ccs[c])
  /\ inserted = <<>>
  /\ running = {}
  /\ inflight = <<>>
  /\ fgAtCall = <<>>
  /\ bpGraph = <<>>
  /\ bpScheduler = <<>>
  /\ messages = <<>>
  /\ queue = <<>>
  /\ iterations = 0
  /\ warnings = <<>>
  /\ estimated = <<>>

\* the for loop over ui of GraphInferenceFunctor::operator()
BuilderLoop ==
  /\ pc = "loop"
  /\ LET mpf == MessagePasserFactory(param.pep_emission, param.pep_spurious_emission,
                                     param.prot_prior, 1)
     IN inserted' = InsertDependencies(fg, mpf, order, <<>>)
  /\ pc' = "built"
  /\ UNCHANGED isoVars
  /\ UNCHANGED <<param, fg, ccs, pending, counterIndex, bestValue, bestParams,
                 indistGroups, evalLog, lastRun, pgFormed, annotCount, requested,
                 raised, order, parVars, lbpVars>>

NextBuilder == BuilderLoop

SpecBuilder == InitBuilder /\ [][NextBuilder]_vars

----------------------------------------------------------------------------
(* One applyFunctorOnCCs call per grid point with the CCs run in parallel:  *)
(* a functor call reads the parameters and its CC and computes the          *)
(* posteriors, then writes them back one by one, while the calls on the     *)
(* other CCs are at any point of the same                                   *)

InitPar ==
  /\ IsoIdle
  /\ pc = "grid"
  /\ param = Defaults
  /\ fg = InputGraph
  /\ ccs = computeConnectedComponents(InputGraph)
  /\ pending = 1..Len(ccs)
  /\ counterIndex = <<0, 0, 0>>
  /\ bestValue = StartValue
  /\ bestParams = <<0, 0, 0>>
  /\ indistGroups = <<>>
  /\ evalLog = <<>>
  /\ lastRun = [c \in 1..Len(ccs) |-> NoRun]
  /\ pgFormed = <<>>
  /\ annotCount = [c \in 1..Len(ccs) |-> 0]
  /\ requested = Defaults
  /\ raised = 0
  /\ order = <<>>
  /\ inserted = <<>>
  /\ running = {}
  /\ inflight = [c \in 1..Len(ccs) |-> <<>>]
  /\ fgAtCall = InputGraph
  /\ bpGraph = <<>>
  /\ bpScheduler = <<>>
  /\ messages = <<>>
  /\ queue = <<>>
  /\ iterations = 0
  /\ warnings = <<>>
  /\ estimated = <<>>

\* the functor call on CC c up to estimate_posteriors
ParBegin(c) ==
  /\ pc = "eval"
  /\ c \in pending
  /\ LET r == GraphInferenceFunctor(fg, ccs[c], param)
     IN /\ inflight' = [inflight EXCEPT ![c] = r.posteriorFactors]
        /\ lastRun' = [lastRun EXCEPT ![c] = RunRecord("GraphInferenceFunctor", r, param)]
  /\ pending' = pending \ {c}
  /\ running' = running \cup {c}
  /\ UNCHANGED isoVars
  /\ UNCHANGED <<pc, param, fg, ccs, counterIndex, bestValue, bestParams,
                 indistGroups, evalLog, pgFormed, annotCount, requested, raised,
                 builderVars, fgAtCall, lbpVars>>

\* one pass of the loop over posteriorFactors of the call on CC c
ParWrite(c) ==
  /\ pc = "eval"
  /\ c \in running
  /\ inflight[c] # <<>>
  /\ fg' = WritePosteriors(fg, <<Head(inflight[c])>>)
  /\ inflight' = [inflight EXCEPT ![c] = Tail(@)]
  /\ UNCHANGED isoVars
  /\ UNCHANGED <<pc, param, ccs, pending, counterIndex, bestValue, bestParams,
                 indistGroups, evalLog, lastRun, pgFormed, annotCount, requested,
                 raised, builderVars, running, fgAtCall, lbpVars>>

\* the functor call on CC c returns
ParReturn(c) ==
  /\ pc = "eval"
  /\ c \in running
  /\ inflight[c] = <<>>
  /\ running' = running \ {c}
  /\ UNCHANGED isoVars
  /\ UNCHANGED <<runVars, builderVars, inflight, fgAtCall, lbpVars>>

\* applyFunctorOnCCs returns when every call has returned; the grid search
\* moves to its next point
ParJoin ==
  /\ pc = "eval"
  /\ pending = {}
  /\ running = {}
  /\ counterIndex' = NextIndex(counterIndex)
  /\ pc' = IF ScanEnded(counterIndex') THEN "joined" ELSE "grid"
  /\ fgAtCall' = fg
  /\ UNCHANGED isoVars
  /\ UNCHANGED <<param, fg, ccs, pending, bestValue, bestParams, indistGroups,
                 evalLog, lastRun, pgFormed, annotCount, requested, raised,
                 builderVars, running, inflight, lbpVars>>

NextPar ==
  \/ EvaluatorSetParams
  \/ \E c \in pending : ParBegin(c)
  \/ \E c \in running : ParWrite(c)
  \/ \E c \in running : ParReturn(c)
  \/ ParJoin

SpecPar == InitPar /\ [][NextPar]_vars

----------------------------------------------------------------------------
(* The engine in numbers. Probabilities are exact fractions: a PMF over the  *)
(* outcomes 0..n-1 is a sequence w of integer weights with a denominator d, *)
(* outcome x having probability w[x + 1] / d. A score taken from such a PMF *)
(* is the tuple Num(n, d), the fraction n / d                               *)

Num(n, d) == <<-1, n, d, 0, 0, <<>>>>

Abs(x) == IF x < 0 THEN 0 - x ELSE x

RECURSIVE Gcd(_, _)
Gcd(a, b) == IF b = 0 THEN a ELSE Gcd(b, a % b)

Lcm(a, b) == (a \div Gcd(a, b)) * b

RECURSIVE Pow(_, _)
Pow(b, e) == IF e = 0 THEN 1 ELSE b * Pow(b, e - 1)

RECURSIVE SumSeq(_)
SumSeq(ws) == IF ws = <<>> THEN 0 ELSE Head(ws) + SumSeq(Tail(ws))

RECURSIVE ProdSeq(_)
ProdSeq(ws) == IF ws = <<>> THEN 1 ELSE Head(ws) * ProdSeq(Tail(ws))

RECURSIVE GcdSeq(_)
GcdSeq(ws) == IF ws = <<>> THEN 0 ELSE Gcd(Abs(Head(ws)), GcdSeq(Tail(ws)))

RECURSIVE MaxSeq(_)
MaxSeq(ws) ==
  IF Len(ws) = 1 THEN ws[1]
  ELSE LET m == MaxSeq(Tail(ws)) IN IF Head(ws) > m THEN Head(ws) ELSE m

\* the values of T over the set S, in some order
RECURSIVE ValuesOver(_, _)
ValuesOver(S, T) ==
  IF S = {} THEN <<>>
  ELSE LET a == CHOOSE x \in S : TRUE IN <<T[a]>> \o ValuesOver(S \ {a}, T)

\* the fraction n / d, d > 0, in lowest terms
Frac(n, d) == LET g == Gcd(Abs(n), d) IN [n |-> n \div g, d |-> d \div g]

\* a / da < b / db for a, b >= 0 and da, db > 0, without forming a * db
RECURSIVE FracLess(_, _, _, _)
FracLess(a, da, b, db) ==
  LET qa == a \div da
      qb == b \div db
      ra == a % da
      rb == b % db
  IN IF qa # qb THEN qa < qb
     ELSE IF rb = 0 THEN FALSE
     ELSE IF ra = 0 THEN TRUE
     ELSE FracLess(db, rb, da, ra)

\* the table ws divided by its sum; d = 0 when the sum is zero and the table
\* cannot be normalised
Normalized(ws) ==
  LET s == SumSeq(ws)
      g == GcdSeq(ws)
  IN IF s = 0 THEN [w |-> ws, d |-> 0]
     ELSE IF s > 0 THEN [w |-> [x \in DOMAIN ws |-> ws[x] \div g], d |-> s \div g]
     ELSE [w |-> [x \in DOMAIN ws |-> (0 - ws[x]) \div g], d |-> (0 - s) \div g]

Uniform(n) == Normalized([x \in 1..n |-> 1])

\* the largest outcome of variable v in the factor graph fs: 1 for a variable
\* with a prior, an evidence factor or a SumEvidenceFactor above it, the sum of
\* the parents' for the output of an adder, the number of parents n the table
\* of a SumEvidenceFactor is built for otherwise
RECURSIVE MaxOutcome(_, _)
MaxOutcome(fs, v) ==
  LET binary == {i \in DOMAIN fs :
                   \/ fs[i].type \in {"ProteinFactor", "PeptideEvidenceFactor"}
                      /\ fs[i].vars[1] = v
                   \/ fs[i].type = "SumEvidenceFactor" /\ fs[i].vars[2] = v}
      adders == {i \in DOMAIN fs :
                   /\ fs[i].type = "PeptideProbabilisticAdderFactor"
                   /\ fs[i].vars[Len(fs[i].vars)] = v}
      counted == {i \in DOMAIN fs :
                    fs[i].type = "SumEvidenceFactor" /\ fs[i].vars[1] = v}
  IN IF binary # {} THEN 1
     ELSE IF adders # {}
       THEN LET f == fs[CHOOSE i \in adders : TRUE]
            IN SumSeq([j \in 1..(Len(f.vars) - 1) |-> MaxOutcome(fs, f.vars[j])])
     ELSE IF counted # {} THEN fs[CHOOSE i \in counted : TRUE].n
     ELSE 1

\* the joint outcomes of the variables of factor i
Assignments(fs, i) ==
  LET f == fs[i]
      top == MaxSeq([j \in DOMAIN f.vars |-> MaxOutcome(fs, f.vars[j])])
  IN {a \in [DOMAIN f.vars -> 0..top] :
        \A j \in DOMAIN f.vars : a[j] <= MaxOutcome(fs, f.vars[j])}

\* the table entry of factor f at the joint outcome a, as an integer weight:
\* ProteinFactor        P(v = 1) = gamma
\* PeptideEvidenceFactor P(v = 1) = score
\* SumEvidenceFactor    P(child = 1 | parent = k) = 1 - (1 - alpha)^k (1 - beta)
\* adder                1 when the output is the sum of the parents
TableEntry(f, mpf, a) ==
  CASE f.type = "ProteinFactor" ->
         IF a[1] = 1 THEN mpf.gamma ELSE 1000 - mpf.gamma
    [] f.type = "PeptideEvidenceFactor" ->
         IF a[1] = 1 THEN f.score[2] ELSE 1000 - f.score[2]
    [] f.type = "SumEvidenceFactor" ->
         IF a[1] > f.n THEN 0
         ELSE LET off == Pow(1000 - mpf.alpha, a[1]) * (1000 - mpf.beta)
                           * Pow(1000, f.n - a[1])
              IN IF a[2] = 0 THEN off ELSE Pow(1000, f.n + 1) - off
    [] f.type = "PeptideProbabilisticAdderFactor" ->
         LET n == Len(f.vars)
         IN IF a[n] = SumSeq([j \in 1..(n - 1) |-> a[j]]) THEN 1 ELSE 0

\* the table of factor i with the common divisor of its entries taken out
Table(fs, mpf, i) ==
  LET as == Assignments(fs, i)
      t == [a \in as |-> TableEntry(fs[i], mpf, a)]
      g == GcdSeq(ValuesOver(as, t))
  IN [a \in as |-> IF g = 0 THEN 0 ELSE t[a] \div g]

\* the directed edges of the factor graph: <<i, j, 0>> runs from factor i to
\* its j-th variable, <<i, j, 1>> from that variable to the factor
DirectedEdges(fs) ==
  UNION {{<<i, j, dir>> : j \in DOMAIN fs[i].vars, dir \in {0, 1}} : i \in DOMAIN fs}

VarAt(fs, e) == fs[e[1]].vars[e[2]]

Unary(f) == f.type \in {"ProteinFactor", "PeptideEvidenceFactor"}

\* the unnormalised message of factor i to its j-th variable: the table summed
\* over the other variables, weighted by their messages to the factor
RawToVariable(fs, mpf, msg, i, j) ==
  LET t == Table(fs, mpf, i)
      term == [a \in DOMAIN t |->
                 t[a] * ProdSeq([k \in DOMAIN fs[i].vars |->
                                   IF k = j THEN 1 ELSE msg[<<i, k, 1>>].w[a[k] + 1]])]
  IN [x \in 1..(MaxOutcome(fs, fs[i].vars[j]) + 1) |->
        SumSeq(ValuesOver({a \in DOMAIN t : a[j] = x - 1}, term))]

\* the unnormalised message of the j-th variable of factor i to that factor:
\* the product of the messages of the variable's other factors
RawToFactor(fs, msg, i, j) ==
  LET v == fs[i].vars[j]
      others == {e \in DirectedEdges(fs) :
                   e[3] = 0 /\ VarAt(fs, e) = v /\ <<e[1], e[2]>> # <<i, j>>}
  IN [x \in 1..(MaxOutcome(fs, v) + 1) |->
        ProdSeq(ValuesOver(others, [e \in others |-> msg[e].w[x]]))]

\* mu_new <- lambda * mu_old + (1 - lambda) * mu_raw, then renormalised;
\* lambda in units of 1/1000
Dampened(old, raw, lambda) ==
  LET lam == Frac(lambda, 1000)
      l == Lcm(old.d, raw.d)
  IN Normalized([x \in DOMAIN raw.w |->
                   lam.n * old.w[x] * (l \div old.d)
                     + (lam.d - lam.n) * raw.w[x] * (l \div raw.d)])

\* the L-infinity distance of two messages
Distance(old, new) ==
  LET l == Lcm(old.d, new.d)
  IN Frac(MaxSeq([x \in DOMAIN new.w |->
                    Abs(old.w[x] * (l \div old.d) - new.w[x] * (l \div new.d))]), l)

\* add_ab_initio_edges: every message uniform, those of the unary factors
\* taken from the factor itself
SeedMessages(fs, mpf) ==
  [e \in DirectedEdges(fs) |->
     IF e[3] = 0 /\ Unary(fs[e[1]])
       THEN Normalized(RawToVariable(fs, mpf, <<>>, e[1], e[2]))
       ELSE Uniform(MaxOutcome(fs, VarAt(fs, e)) + 1)]

NotPending == [n |-> -1, d |-> 1]

\* the queue after add_ab_initio_edges: the edges out of the unary factors,
\* keyed by how far their message is from the uniform one
SeedQueue(fs, mpf) ==
  LET seed == SeedMessages(fs, mpf)
  IN [e \in DirectedEdges(fs) |->
        IF e[3] = 0 /\ Unary(fs[e[1]]) /\ seed[e].d > 0
          THEN Distance(Uniform(Len(seed[e].w)), seed[e])
          ELSE NotPending]

PendingEdges(q) == {e \in DOMAIN q : q[e].n >= 0}

\* delta < epsilon, the threshold in units of 1e-5
BelowThreshold(delta, threshold) ==
  LET eps == Frac(threshold, 100000)
  IN eps.n > 0 /\ FracLess(delta.n, delta.d, eps.n, eps.d)

\* all pending edge deltas are below epsilon
Converged(q, threshold) ==
  \A e \in PendingEdges(q) : BelowThreshold(q[e], threshold)

EdgeBefore(e, f) ==
  \/ e[1] < f[1]
  \/ e[1] = f[1] /\ e[2] < f[2]
  \/ e[1] = f[1] /\ e[2] = f[2] /\ e[3] < f[3]

\* the pending edge of maximum delta, the first such edge among equals
MaxEdge(q) ==
  CHOOSE e \in PendingEdges(q) :
    \A f \in PendingEdges(q) \ {e} :
      \/ FracLess(q[f].n, q[f].d, q[e].n, q[e].d)
      \/ ~FracLess(q[e].n, q[e].d, q[f].n, q[f].d) /\ EdgeBefore(e, f)

\* the outgoing edges on the other side of the node edge e arrives at
Dependent(fs, e) ==
  IF e[3] = 0
    THEN {o \in DirectedEdges(fs) :
            o[3] = 1 /\ VarAt(fs, o) = VarAt(fs, e) /\ <<o[1], o[2]>> # <<e[1], e[2]>>}
    ELSE {o \in DirectedEdges(fs) : o[3] = 0 /\ o[1] = e[1] /\ o[2] # e[2]}

\* the new message on edge o
Recomputed(fs, mpf, msg, o, lambda) ==
  LET raw == Normalized(IF o[3] = 0 THEN RawToVariable(fs, mpf, msg, o[1], o[2])
                                    ELSE RawToFactor(fs, msg, o[1], o[2]))
  IN IF raw.d = 0 THEN raw ELSE Dampened(msg[o], raw, lambda)

\* the belief of variable v: the normalised product of the messages it receives
Belief(fs, msg, v) ==
  LET into == {e \in DirectedEdges(fs) : e[3] = 0 /\ VarAt(fs, e) = v}
  IN Normalized([x \in 1..(MaxOutcome(fs, v) + 1) |->
                   ProdSeq(ValuesOver(into, [e \in into |-> msg[e].w[x]]))])

\* a normalised table as the PMF the functor reads: narrowed to the outcomes
\* from the first to the last of non-zero mass
NarrowedPMF(b) ==
  LET on == {x \in DOMAIN b.w : b.w[x] # 0}
      first == CHOOSE x \in on : \A y \in on : x <= y
      last == CHOOSE x \in on : \A y \in on : x >= y
  IN [first_support |-> first - 1,
      last_support |-> last - 1,
      table |-> [k \in 0..(last - first) |-> Num(b.w[first + k], b.d)]]

\* estimate_posteriors once the scheduler has stopped
NumericPosteriors(fs, msg, posteriorVars) ==
  [k \in 1..Len(posteriorVars) |->
     [ordered_variables |-> posteriorVars[k],
      pmf |-> NarrowedPMF(Belief(fs, msg, posteriorVars[k][1]))]]

----------------------------------------------------------------------------
(* One call of the inference functor on one CC with the engine run step by  *)
(* step: the functor builds the factor graph and the scheduler, the         *)
(* scheduler pops one edge per step, the engine hands back the posteriors   *)
(* and the functor writes them to the graph                                 *)

\* the parameters of the functor call: a grid point under the default prior,
\* or the first grid point under whatever the final run read as the prior
FactoryDraws ==
  {<<alpha_search[i], beta_search[1], gamma_search[1]>> : i \in DOMAIN alpha_search}
  \cup {<<alpha_search[1], beta_search[1], g>> : g \in Garbage}

\* dampening_lambda, in units of 1/1000, as the caller may set it
LambdaDraws == {0, 500}

\* convergence_threshold, in units of 1e-5, as the caller may set it
ThresholdDraws == {0, 25000}

InitLBP ==
  /\ IsoIdle
  /\ pc = "call"
  /\ \E m \in FactoryDraws, l \in LambdaDraws, t \in ThresholdDraws, n \in 0..MaxIter :
       param = [Defaults EXCEPT !.pep_emission = m[1],
                                !.pep_spurious_emission = m[2],
                                !.prot_prior = m[3],
                                !.dampening_lambda = l,
                                !.convergence_threshold = t,
                                !.max_nr_iterations = n]
  /\ fg = InputGraph
  /\ ccs = computeConnectedComponents(InputGraph)
  /\ \E c \in 1..Len(ccs) :
       /\ InferenceGuard(Cardinality(ccs[c]))
       /\ pending = {c}
  /\ counterIndex = <<0, 0, 0>>
  /\ bestValue = StartValue
  /\ bestParams = <<0, 0, 0>>
  /\ indistGroups = <<>>
  /\ evalLog = <<>>
  /\ lastRun = <<>>
  /\ pgFormed = <<>>
  /\ annotCount = <<>>
  /\ requested = Defaults
  /\ raised = 0
  /\ order = <<>>
  /\ inserted = <<>>
  /\ running = {}
  /\ inflight = <<>>
  /\ fgAtCall = <<>>
  /\ bpGraph = <<>>
  /\ bpScheduler = <<>>
  /\ messages = <<>>
  /\ queue = <<>>
  /\ iterations = 0
  /\ warnings = <<>>
  /\ estimated = <<>>

\* the functor up to the construction of the engine
FunctorBuild ==
  /\ pc = "call"
  /\ \E c \in pending :
       LET mpf == MessagePasserFactory(param.pep_emission, param.pep_spurious_emission,
                                       param.prot_prior, 1)
           us == Vertices(fg, ccs[c])
           factors == InsertDependencies(fg, mpf, us, <<>>)
           posteriorVars ==
             Flatten([i \in 1..Len(us) |-> VertexPosteriorVars(fg, us[i])])
       IN /\ bpGraph' = [mpf |-> mpf, factors |-> factors,
                         posteriorVars |-> posteriorVars]
          /\ bpScheduler' = SchedulerArguments(param)
          /\ messages' = SeedMessages(factors, mpf)
          /\ queue' = SeedQueue(factors, mpf)
  /\ iterations' = 0
  /\ pc' = "run"
  /\ UNCHANGED isoVars
  /\ UNCHANGED <<param, fg, ccs, pending, counterIndex, bestValue, bestParams,
                 indistGroups, evalLog, lastRun, pgFormed, annotCount, requested,
                 raised, builderVars, parVars, warnings, estimated>>

\* the scheduler has to go on: some pending delta is not below the threshold
\* and the iteration limit is not reached
SchedulerRuns ==
  /\ ~Converged(queue, bpScheduler.convergence_threshold)
  /\ iterations < bpScheduler.max_nr_iterations

\* one step of the scheduler: pop the edge of maximum delta, recompute the
\* dependent messages, push their deltas
SchedulerStep ==
  /\ pc = "run"
  /\ SchedulerRuns
  /\ LET e == MaxEdge(queue)
         outs == Dependent(bpGraph.factors, e)
         new == [o \in outs |->
                   Recomputed(bpGraph.factors, bpGraph.mpf, messages, o,
                              bpScheduler.dampening_lambda)]
     IN IF \E o \in outs : new[o].d = 0
          THEN /\ pc' = "numeric_error"
               /\ UNCHANGED <<messages, queue, iterations>>
          ELSE /\ messages' = [x \in DOMAIN messages |->
                                 IF x \in outs THEN new[x] ELSE messages[x]]
               /\ queue' = [x \in DOMAIN queue |->
                              IF x = e THEN NotPending
                              ELSE IF x \in outs THEN Distance(messages[x], new[x])
                              ELSE queue[x]]
               /\ iterations' = iterations + 1
               /\ UNCHANGED pc
  /\ UNCHANGED isoVars
  /\ UNCHANGED <<param, fg, ccs, pending, counterIndex, bestValue, bestParams,
                 indistGroups, evalLog, lastRun, pgFormed, annotCount, requested,
                 raised, builderVars, parVars, bpGraph, bpScheduler, warnings,
                 estimated>>

\* the scheduler stops: estimate_posteriors returns the current marginals, with
\* a warning when the stop is not a convergence
EngineReturn ==
  /\ pc = "run"
  /\ ~SchedulerRuns
  /\ warnings' = IF Converged(queue, bpScheduler.convergence_threshold)
                   THEN warnings
                   ELSE Append(warnings, "not converged")
  /\ IF \E k \in DOMAIN bpGraph.posteriorVars :
          Belief(bpGraph.factors, messages, bpGraph.posteriorVars[k][1]).d = 0
       THEN pc' = "numeric_error" /\ UNCHANGED estimated
       ELSE /\ estimated' = NumericPosteriors(bpGraph.factors, messages,
                                              bpGraph.posteriorVars)
            /\ pc' = "estimated"
  /\ UNCHANGED isoVars
  /\ UNCHANGED <<param, fg, ccs, pending, counterIndex, bestValue, bestParams,
                 indistGroups, evalLog, lastRun, pgFormed, annotCount, requested,
                 raised, builderVars, parVars, bpGraph, bpScheduler, messages,
                 queue, iterations>>

\* the loop of the functor over posteriorFactors
FunctorWriteBack ==
  /\ pc = "estimated"
  /\ fg' = WritePosteriors(fg, PosteriorsToWrite(estimated, warnings))
  /\ pending' = {}
  /\ pc' = "written"
  /\ UNCHANGED isoVars
  /\ UNCHANGED <<param, ccs, counterIndex, bestValue, bestParams, indistGroups,
                 evalLog, lastRun, pgFormed, annotCount, requested, raised,
                 builderVars, parVars, lbpVars>>

NextLBP ==
  \/ FunctorBuild
  \/ SchedulerStep
  \/ EngineReturn
  \/ FunctorWriteBack

SpecLBP == InitLBP /\ [][NextLBP]_vars

\* the functor call moves on: its position changes or the scheduler takes
\* one more step. Every step of NextLBP is such a step, and at each of the
\* three positions one of the four actions can be taken
Advance ==
  /\ pc \in {"call", "run", "estimated"}
  /\ pc' \in {"run", "estimated", "written", "numeric_error"}
  /\ iterations' \in {iterations, iterations + 1}

\* the functor call is one thread running to its end: while it is inside the
\* call it moves on
SpecLBPFair == SpecLBP /\ WF_<<pc, iterations>>(Advance)

----------------------------------------------------------------------------
(* Properties *)

\* P(v = 1) of the posterior of protein v under factory parameters (a, b, g):
\* the table entry of outcome 1 when 1 is in the support, 0 otherwise
ExpectedScore(v, a, b, g) ==
  IF g = 0 THEN Entry(Lit(0)) ELSE Entry(Mass(v, 1, a, b, g, <<>>))

GridDone == pc \in {"best", "final", "annotate", "done"}

ProteinsOf(c) == {v \in ccs[c] : fg[v].which = Protein}

Occurrences(sq, x) == Cardinality({i \in DOMAIN sq : sq[i] = x})

\* C1: after the grid scan the final re-run uses pep_emission = A[i*],
\* pep_spurious_emission = B[j*] and prot_prior = G[k*], where (i*, j*, k*) is
\* the index triple the grid search reported over A x B x G.
C1_FinalRunUsesArgmaxPoint ==
  pc \in {"final", "annotate", "done"} =>
    /\ param.pep_emission = alpha_search[bestParams[1] + 1]
    /\ param.pep_spurious_emission = beta_search[bestParams[2] + 1]
    /\ param.prot_prior = gamma_search[bestParams[3] + 1]

\* C2: the evaluator is invoked once for every grid point and for no other
\* point; in each invocation the three model parameters are the point's before
\* the inference functor runs on the CCs, and the objective is computed from
\* the posteriors that run produced.
C2_EvaluatorPerPoint ==
  /\ \A n \in DOMAIN evalLog :
       /\ evalLog[n].index \in GridIndices
       /\ \A m \in DOMAIN evalLog : evalLog[m].index = evalLog[n].index => m = n
       /\ \A c \in AllCCs : \A v \in ProteinsOf(c) :
            Cardinality(ccs[c]) >= 2 =>
              Entry(evalLog[n].scores[v]) =
                ExpectedScore(v, evalLog[n].point[1], evalLog[n].point[2],
                              evalLog[n].point[3])
  /\ GridDone => {evalLog[n].index : n \in DOMAIN evalLog} = GridIndices
  /\ pc = "eval" =>
       /\ <<param.pep_emission, param.pep_spurious_emission, param.prot_prior>>
            = GridPoint(counterIndex)
       /\ \A c \in AllCCs \ pending :
            /\ lastRun[c].functor = "GraphInferenceFunctor"
            /\ lastRun[c].mpf = GridPoint(counterIndex)

C2_Witness ==
  /\ pc = "best"
  /\ Len(evalLog) = Cardinality(GridIndices)

LexLeq(x, y) ==
  \/ x[1] < y[1]
  \/ x[1] = y[1] /\ x[2] < y[2]
  \/ x[1] = y[1] /\ x[2] = y[2] /\ x[3] <= y[3]

\* C3: the grid search reports a point whose objective is maximal over the
\* whole grid, the lexicographically smallest one among the maximal points,
\* for every objective function.
C3_ReportsLexSmallestArgmax ==
  GridDone =>
    \E n \in DOMAIN evalLog :
      /\ evalLog[n].index = bestParams
      /\ \A m \in DOMAIN evalLog : evalLog[m].J <= evalLog[n].J
      /\ \A m \in DOMAIN evalLog :
           evalLog[m].J = evalLog[n].J => LexLeq(evalLog[n].point, evalLog[m].point)

\* C4: the annotator is applied exactly once (per CC), only after all grid
\* evaluations and the final inference re-run have completed; the protein
\* scores it reads are those written by the final run.
C4_AnnotatorOnceAfterFinalRun ==
  /\ \A c \in DOMAIN annotCount : annotCount[c] <= 1
  /\ pc = "done" => \A c \in DOMAIN annotCount : annotCount[c] = 1
  /\ (\E c \in DOMAIN annotCount : annotCount[c] > 0) =>
       /\ {evalLog[n].index : n \in DOMAIN evalLog} = GridIndices
       /\ \A d \in AllCCs : lastRun[d].functor = "ExtendedGraphInferenceFunctor"
  /\ \A i \in DOMAIN pgFormed :
       \E m \in Range(pgFormed[i].members) :
         Entry(pgFormed[i].probability) =
           ExpectedScore(m, param.pep_emission, param.pep_spurious_emission,
                         param.prot_prior)

C4_Witness ==
  /\ pc = "done"
  /\ Len(pgFormed) >= 1
  /\ \A c \in AllCCs : annotCount[c] = 1

\* C5: on a CC with fewer than 2 vertices the inference functor builds no
\* factors, runs no scheduler and leaves every vertex of the CC unchanged, and
\* the annotator forms no group record for it.
C5_DegenerateCCSkipped ==
  \A c \in AllCCs :
    Cardinality(ccs[c]) < 2 =>
      /\ ~lastRun[c].ran
      /\ lastRun[c].factors = <<>>
      /\ lastRun[c].scheduler = "none"
      /\ \A v \in ccs[c] : fg[v] = InputGraph[v]
      /\ \A i \in DOMAIN pgFormed : pgFormed[i].vertex \notin ccs[c]

C5_Witness ==
  \E c \in AllCCs :
    /\ Cardinality(ccs[c]) < 2
    /\ lastRun[c].functor = "ExtendedGraphInferenceFunctor"
    /\ annotCount[c] = 1

\* C6: after the inference functor has run on a CC with at least 2 vertices,
\* every Protein vertex v of the CC has been written exactly once, with the
\* entry for outcome 1 of the posterior of variable v when 1 is in its
\* support, and with 0 otherwise.
C6_ProteinScoreWrittenOnce ==
  \A c \in AllCCs :
    lastRun[c].ran =>
      \A v \in ProteinsOf(c) :
        /\ Occurrences(lastRun[c].visited, v) = 1
        /\ Entry(fg[v].score) =
             ExpectedScore(v, lastRun[c].mpf[1], lastRun[c].mpf[2], lastRun[c].mpf[3])

C6_Witness ==
  \E c \in AllCCs :
    /\ lastRun[c].ran
    /\ Cardinality(ProteinsOf(c)) >= 2
    /\ pc = "eval"

\* C7: an inference run over a CC changes nothing in the identification graph
\* but the score of Protein vertices: PSM scores and evidences, all other
\* vertices, and the vertex and edge sets stay as they were.
C7_OnlyProteinScoresChange ==
  [][(pc \in {"eval", "final"} /\ pending' # pending) =>
       /\ DOMAIN fg' = DOMAIN fg
       /\ ccs' = ccs
       /\ \A v \in DOMAIN fg :
            /\ fg'[v].which = fg[v].which
            /\ fg'[v].adj = fg[v].adj
            /\ fg'[v].evidences = fg[v].evidences
            /\ fg'[v].accession = fg[v].accession
            /\ fg[v].which # Protein => fg'[v].score = fg[v].score]_vars

C7_Witness ==
  /\ pc = "final"
  /\ \E c \in AllCCs :
       /\ c \notin pending
       /\ lastRun[c].ran
       /\ \E v \in ccs[c] : fg[v].which = PSM
       /\ \E v \in ProteinsOf(c) : fg[v].score # InputGraph[v].score

\* C8: after the annotator has run, the result holds one protein-group record
\* for every ProteinGroup vertex of every CC with at least two vertices, with
\* the accessions of the adjacent Protein vertices and the score of a member.
C8_ResultHasGroupRecords ==
  pc = "done" =>
    \A c \in AllCCs : \A u \in ccs[c] :
      (Cardinality(ccs[c]) >= 2 /\ fg[u].which = ProteinGroup) =>
        \E i \in DOMAIN indistGroups :
          /\ Range(indistGroups[i].accessions) =
               {fg[v].accession : v \in {w \in Range(fg[u].adj) : fg[w].which = Protein}}
          /\ \E v \in Range(fg[u].adj) :
               fg[v].which = Protein /\ indistGroups[i].probability = fg[v].score

\* C9: with annotate_groups_only set, no grid evaluation and no inference run
\* happens (no protein score changes) and only the annotator runs; without it,
\* inference is performed.
C9_AnnotateGroupsOnlySkipsInference ==
  /\ param.annotate_groups_only =>
       /\ evalLog = <<>>
       /\ \A c \in DOMAIN lastRun : lastRun[c].functor = "none"
       /\ Scores(fg) = Scores(InputGraph)
  /\ (~param.annotate_groups_only /\ pc = "done") =>
       \E c \in AllCCs : lastRun[c].ran

\* C10: the scheduler used on each CC is the one selected by
\* loopy_belief_propagation:scheduling_type; the default is priority.
C10_SchedulerFollowsConfig ==
  /\ Defaults.scheduling_type = "priority"
  /\ \A c \in DOMAIN lastRun :
       lastRun[c].ran => lastRun[c].scheduler = param.scheduling_type

\* the ranges the parameters are declared with: top_PSMs >= 0; prot_prior,
\* pep_emission, pep_spurious_emission and aucweight in [0,1];
\* dampening_lambda in [0,1); convergence_threshold > 0
InDeclaredRange(cfg) ==
  /\ cfg.top_PSMs >= 0
  /\ \A k \in {"prot_prior", "pep_emission", "pep_spurious_emission", "aucweight"} :
       cfg[k] >= 0 /\ cfg[k] <= 1000
  /\ cfg.dampening_lambda >= 0 /\ cfg.dampening_lambda < 1000
  /\ cfg.convergence_threshold > 0

\* C11: a parameter value outside its declared range is rejected with a
\* configuration error before any inference is run: once setParameters has
\* been called with such a value, the run is in the error state and no graph
\* is built, no grid point evaluated and no functor applied.
C11_OutOfRangeRejected ==
  (pc # "configure" /\ ~InDeclaredRange(requested)) =>
    /\ pc = "config_error"
    /\ ccs = <<>>
    /\ evalLog = <<>>

\* C12: an error raised while one CC is processed aborts only that CC: the run
\* is not aborted, every other CC of the call is still processed (so the run
\* reaches its end with all CCs visited by the final functor), and the failed
\* CC is reported to the caller.
C12_ErrorAbortsOnlyItsCC ==
  raised # 0 =>
    /\ pc # "aborted"
    /\ raised \in ReportedFailures
    /\ pc = "done" =>
         \A c \in AllCCs \ {raised} :
           lastRun[c].functor = "ExtendedGraphInferenceFunctor"

\* C13: a second run of the inference functor over the same graph with the
\* same parameters writes the same protein scores as the first: whenever the
\* latest run on a CC used the parameters of an earlier grid evaluation, the
\* scores it left are those that evaluation produced, whatever scores the
\* runs in between left behind.
C13_RerunReproducesScores ==
  \A c \in AllCCs : \A n \in DOMAIN evalLog :
    (lastRun[c].ran /\ lastRun[c].mpf = evalLog[n].point) =>
      \A v \in ProteinsOf(c) : fg[v].score = evalLog[n].scores[v]

C13_Witness ==
  /\ pc = "annotate"
  /\ Len(evalLog) > 1
  /\ \E c \in AllCCs :
       /\ lastRun[c].ran
       /\ lastRun[c].functor = "ExtendedGraphInferenceFunctor"
       /\ lastRun[c].mpf = evalLog[1].point
       /\ \E v \in ProteinsOf(c) :
            evalLog[Len(evalLog)].scores[v] # evalLog[1].scores[v]

\* a graph that agrees with g on the CC c and differs everywhere else: other
\* scores, other evidence counts, no edges
Perturbed(g, c, x) ==
  [v \in DOMAIN g |->
     IF v \in ccs[c] THEN g[v]
     ELSE [g[v] EXCEPT !.score = Lit(x), !.evidences = @ + 1, !.adj = <<>>]]

ScoresOn(g, c) == [v \in ProteinsOf(c) |-> g[v].score]

\* C14: the posterior written to a Protein vertex depends only on its own CC
\* and the model parameters: the scores a functor call has left on the
\* proteins of a CC are the scores the same call writes on a graph that agrees
\* on the CC and differs in all other vertices.
C14_PosteriorDependsOnOwnCC ==
  \A c \in AllCCs \ pending : \A x \in {0, 777} :
    /\ pc = "eval" =>
         ScoresOn(fg, c)
           = ScoresOn(GraphInferenceFunctor(Perturbed(fg, c, x), ccs[c], param).fg, c)
    /\ pc = "final" =>
         ScoresOn(fg, c)
           = ScoresOn(ExtendedGraphInferenceFunctor(Perturbed(fg, c, x), ccs[c],
                                                    param).fg, c)

C14_Witness ==
  /\ pc = "final"
  /\ \E c \in AllCCs :
       /\ c \notin pending
       /\ lastRun[c].ran
       /\ \E d \in pending : Cardinality(ccs[d]) >= 2

\* the lower-kind neighbours of u, in adjacency order
LowerNeighbours(u) ==
  SelectSeq(fg[u].adj, LAMBDA w : fg[w].which < fg[u].which)

\* the number of factors the table prescribes for a vertex of kind k
FactorCount(k) ==
  IF k = PSM THEN 2 ELSE IF k \in {Protein, ProteinGroup, PeptideGroup} THEN 1 ELSE 0

RECURSIVE SumOver(_, _)
SumOver(S, f) ==
  IF S = {} THEN 0
  ELSE LET x == CHOOSE y \in S : TRUE IN f[x] + SumOver(S \ {x}, f)

BagOf(sq) == [x \in Range(sq) |-> Occurrences(sq, x)]

\* C17: for every vertex u of the CC, with in its lower-kind neighbours, the
\* builder receives exactly: ProteinFactor(u) for a Protein; one
\* PeptideProbabilisticAdderFactor(in, u) for a ProteinGroup or PeptideGroup;
\* SumEvidenceFactor(#evidences, in[0], u) and PeptideEvidenceFactor(u, score)
\* for a PSM; nothing for any other kind. The multiset of factors is the same
\* for every order in which the vertices are iterated.
C17_FactorsPerVertexKind ==
  pc = "built" =>
    LET cc == Range(order)
        mpf == MessagePasserFactory(param.pep_emission, param.pep_spurious_emission,
                                    param.prot_prior, 1)
    IN /\ Len(inserted) = SumOver(cc, [u \in cc |-> FactorCount(fg[u].which)])
       /\ \A u \in cc :
            LET k == fg[u].which
                in == LowerNeighbours(u)
            IN /\ k = Protein =>
                    Occurrences(inserted, Factor("ProteinFactor", <<u>>, 0, Lit(0))) = 1
               /\ k \in {ProteinGroup, PeptideGroup} =>
                    Occurrences(inserted,
                                Factor("PeptideProbabilisticAdderFactor", in \o <<u>>,
                                       0, Lit(0))) = 1
               /\ k = PSM =>
                    /\ Occurrences(inserted,
                                   Factor("SumEvidenceFactor", <<in[1], u>>,
                                          fg[u].evidences, Lit(0))) = 1
                    /\ Occurrences(inserted,
                                   Factor("PeptideEvidenceFactor", <<u>>, 0,
                                          fg[u].score)) = 1
               /\ FactorCount(k) = 0 =>
                    \A i \in DOMAIN inserted :
                      inserted[i].vars[Len(inserted[i].vars)] # u
       /\ BagOf(inserted) = BagOf(InsertDependencies(fg, mpf, SortedSeq(cc), <<>>))

C17_Witness ==
  /\ pc = "built"
  /\ order # SortedSeq(Range(order))
  /\ \E i \in DOMAIN inserted : inserted[i].type = "SumEvidenceFactor"
  /\ \E i \in DOMAIN inserted : inserted[i].type = "PeptideProbabilisticAdderFactor"
  /\ \E u \in Range(order) : fg[u].which = Peptide

\* C18: the annotator asserts that all Protein members of a ProteinGroup carry
\* the same score: no group record is formed, with the score of the last
\* member, from members whose scores differ.
C18_UnequalMembersDetected ==
  \A i \in DOMAIN pgFormed :
    \A m \in Range(pgFormed[i].members) :
      fg[m].score = pgFormed[i].probability

\* C20: GraphInferenceFunctor and ExtendedGraphInferenceFunctor are
\* observationally equivalent: called on the same CC of the same graph with the
\* same parameters they take the same guard, hand the same factors to the
\* builder, request the same posterior variables, construct the same
\* scheduler and write the same score to every vertex.
C20_FunctorsEquivalent ==
  pc \in {"eval", "final"} =>
    \A c \in pending :
      GraphInferenceFunctor(fg, ccs[c], param)
        = ExtendedGraphInferenceFunctor(fg, ccs[c], param)

C20_Witness ==
  /\ pc = "final"
  /\ \E c \in pending : Cardinality(ccs[c]) >= 2
  /\ \E c \in AllCCs \ pending :
       /\ lastRun[c].functor = "ExtendedGraphInferenceFunctor"
       /\ lastRun[c].ran
  /\ \E d \in pending : lastRun[d].functor = "GraphInferenceFunctor" /\ lastRun[d].ran

\* the CCs processed one after the other, each functor call run to its end
RECURSIVE ApplySequentially(_, _, _)
ApplySequentially(g, cs, p) ==
  IF cs = <<>> THEN g
  ELSE ApplySequentially(GraphInferenceFunctor(g, ccs[Head(cs)], p).fg, Tail(cs), p)

\* C19: with the CCs of one applyFunctorOnCCs call processed in parallel, in
\* any interleaving, the vertices of a CC not yet started are as they were at
\* the call, and those of a CC whose functor call has returned are as the
\* sequential processing leaves them (so when all have returned the scores are
\* the sequential ones); a write-back step of the call on one CC changes no
\* vertex outside that CC; the parameters do not change while CCs are processed.
C19_ParallelEqualsSequential ==
  /\ [](pc = "eval" =>
          LET seq == ApplySequentially(fgAtCall, SortedSeq(AllCCs), param)
          IN \A c \in AllCCs :
               /\ c \in pending => \A v \in ccs[c] : fg[v] = fgAtCall[v]
               /\ c \notin pending \cup running => \A v \in ccs[c] : fg[v] = seq[v])
  /\ [][pc = "eval" =>
          /\ param' = param
          /\ \A c \in AllCCs :
               (c \in running /\ inflight'[c] # inflight[c]) =>
                 \A v \in DOMAIN fg \ ccs[c] : fg'[v] = fg[v]]_vars

C19_Witness ==
  /\ pc = "eval"
  /\ counterIndex # <<0, 0, 0>>
  /\ \E c, d \in running :
       /\ c # d
       /\ Len(inflight[c]) = 1
       /\ Cardinality(ProteinsOf(c)) = 2
       /\ Len(inflight[d]) = 1

----------------------------------------------------------------------------
(* The engine's messages and posteriors *)

\* m is a probability distribution: non-negative entries that sum to one
IsDistribution(m) ==
  /\ m.d > 0
  /\ \A x \in DOMAIN m.w : m.w[x] >= 0
  /\ SumSeq(m.w) = m.d

\* the score s is a number in [0, 1]
InUnitInterval(s) ==
  IF s[1] = -1 THEN s[3] > 0 /\ 0 <= s[2] /\ s[2] <= s[3]
  ELSE s[1] = 0 /\ 0 <= s[2] /\ s[2] <= 1000

\* the scheduler has stopped and estimate_posteriors has returned
EngineReturned == pc \in {"estimated", "written"}

\* C15: after every scheduler step each edge message is a normalised
\* distribution (entries non-negative, summing to one), and every posterior
\* estimate_posteriors returns and the functor writes to a Protein is a number
\* in [0, 1] taken from a PMF that sums to one
C15_MessagesAndPosteriorsNormalised ==
  /\ (pc \in {"run", "estimated", "written"} /\ iterations >= 1) =>
       \A e \in DOMAIN messages : IsDistribution(messages[e])
  /\ EngineReturned =>
       \A k \in DOMAIN estimated :
         LET t == estimated[k].pmf.table
         IN /\ \A x \in DOMAIN t : t[x][2] >= 0 /\ t[x][3] > 0
            /\ SumSeq([x \in 1..(estimated[k].pmf.last_support
                                    - estimated[k].pmf.first_support + 1) |->
                         t[x - 1][2]]) = t[0][3]
  /\ pc = "written" =>
       \A k \in DOMAIN estimated :
         InUnitInterval(fg[estimated[k].ordered_variables[1]].score)

\* the scheduler stopped at the iteration limit with a pending delta that is
\* not below the threshold
StoppedUnconverged ==
  /\ EngineReturned
  /\ ~Converged(queue, bpScheduler.convergence_threshold)

\* C16: belief propagation always terminates: the scheduler stops as soon as
\* all pending deltas are below the threshold or the iteration count reaches
\* max_nr_iterations, and never runs past either; stopping at the limit
\* without convergence is no error: a warning is recorded and the current
\* marginals are still written back to the proteins
C16_TerminatesAndWarns ==
  /\ <>(pc = "written")
  /\ [](pc = "call" => pending # {})
  /\ []((pc = "run" /\ SchedulerRuns) => PendingEdges(queue) # {})
  /\ [](pc = "run" => iterations <= param.max_nr_iterations)
  /\ [](EngineReturned =>
          \/ Converged(queue, bpScheduler.convergence_threshold)
          \/ iterations = param.max_nr_iterations)
  /\ [](StoppedUnconverged => warnings # <<>>)
  /\ []((StoppedUnconverged /\ pc = "written") =>
          \A k \in DOMAIN estimated :
            fg[estimated[k].ordered_variables[1]].score
              = PosteriorOf(estimated[k].pmf))
  /\ [][(pc = "run" /\ iterations' # iterations) =>
          /\ ~Converged(queue, param.convergence_threshold)
          /\ iterations < param.max_nr_iterations]_vars

\* a run that took steps, stopped at the limit unconverged, warned and wrote
\* the marginals it had
C16_Witness ==
  /\ pc = "written"
  /\ StoppedUnconverged
  /\ iterations = param.max_nr_iterations
  /\ iterations >= 2
  /\ warnings # <<>>
  /\ \E k \in DOMAIN estimated :
       /\ fg[estimated[k].ordered_variables[1]].score[1] = -1
       /\ fg[estimated[k].ordered_variables[1]].score # Num(1, 2)

----------------------------------------------------------------------------
(* The reads of the best parameters *)

\* C21: when the best parameters are read after the grid search, each index
\* is within the bounds of the vector it indexes: bestParams[0] in
\* gamma_search, bestParams[1] in beta_search, bestParams[2] in alpha_search
C21_BestParamReadsInRange ==
  pc = "best" =>
    /\ bestGammaIndex(bestParams) < Len(gamma_search)
    /\ bestBetaIndex(bestParams) < Len(beta_search)
    /\ bestAlphaIndex(bestParams) < Len(alpha_search)

----------------------------------------------------------------------------
(* The factor graph against the identification graph *)

\* C22: for every PSM the functor processes, the list in of its lower-kind
\* neighbours is not empty when in[0] is read, and in[0] is the PSM's only
\* lower-kind neighbour: every lower-kind neighbour of the PSM is the parent
\* of the PSM's SumEvidenceFactor
C22_SumEvidenceOverEveryLowerNeighbour ==
  pc = "built" =>
    \A u \in Range(order) :
      fg[u].which = PSM =>
        /\ LowerNeighbours(u) # <<>>
        /\ \A w \in Range(LowerNeighbours(u)) :
             \E i \in DOMAIN inserted :
               /\ inserted[i].type = "SumEvidenceFactor"
               /\ inserted[i].vars = <<w, u>>

\* the variables that share a factor of fs with a variable of S, and so on
RECURSIVE FactorReach(_, _)
FactorReach(fs, S) ==
  LET T == S \cup UNION {Range(fs[i].vars) :
                           i \in {j \in DOMAIN fs : Range(fs[j].vars) \cap S # {}}}
  IN IF T = S THEN S ELSE FactorReach(fs, T)

\* C23: in the factor graph built for a CC every identification-graph edge
\* between a vertex and a lower-kind neighbour is covered by a factor over
\* both, and every Protein variable is connected through factors to every PSM
\* variable of the CC, also in a CC with vertices of kinds 3 to 5
C23_FactorGraphConnectsProteinsToPSMs ==
  pc = "built" =>
    /\ \A u \in Range(order) :
         \A w \in Range(LowerNeighbours(u)) :
           \E i \in DOMAIN inserted : {u, w} \subseteq Range(inserted[i].vars)
    /\ \A p \in Range(order) :
         fg[p].which = Protein =>
           \A s \in Range(order) :
             fg[s].which = PSM => s \in FactorReach(inserted, {p})

----------------------------------------------------------------------------
(* The annotator's protein pointer *)

\* C24: in the annotator the protein pointer is non-null whenever it is
\* dereferenced to read the group probability: every ProteinGroup vertex
\* reached in a CC of at least 2 vertices has seen at least one adjacent
\* Protein before proteinPtr->getScore() is evaluated, the pointer is the last
\* Protein neighbour and the probability read is that protein's score
C24_ProteinPtrNonNullAtDereference ==
  /\ pc # "crashed"
  /\ \A i \in DOMAIN pgFormed :
       LET pg == pgFormed[i]
       IN /\ fg[pg.vertex].which = ProteinGroup
          /\ pg.members # <<>>
          /\ pg.proteinPtr = pg.members[Len(pg.members)]
          /\ fg[pg.proteinPtr].which = Protein
          /\ pg.proteinPtr \in Range(fg[pg.vertex].adj)
          /\ pg.probability = fg[pg.proteinPtr].score

\* the annotator has dereferenced the pointer for the group of proteins 1, 2
C24_Witness ==
  \E i \in DOMAIN pgFormed :
    /\ pgFormed[i].vertex = 3
    /\ pgFormed[i].members = <<1, 2>>
    /\ pgFormed[i].proteinPtr = 2

----------------------------------------------------------------------------
(* IsoSpec: the wrapper object around the isotopologue tabulator *)

\* the most configurations a tabulator run yields in the model
MaxConfs == 2

\* a configuration the tabulator can yield: <<mass, probability>>, the
\* probability in percent
Confs == {<<100, 60>>, <<101, 40>>}

RECURSIVE SeqsUpTo(_, _)
SeqsUpTo(S, n) ==
  IF n = 0 THEN {<<>>}
  ELSE LET shorter == SeqsUpTo(S, n - 1)
       IN shorter \cup {Append(s, x) : s \in {t \in shorter : Len(t) = n - 1}, x \in S}

\* what a Tabulator built on an IsoThresholdGenerator holds: confs_no() and
\* the arrays masses() and probs(), each with confs_no() entries
TabulatorResults ==
  {[confs_no |-> Len(cs),
    masses |-> [i \in 1..Len(cs) |-> cs[i][1]],
    probs |-> [i \in 1..Len(cs) |-> cs[i][2]]] : cs \in SeqsUpTo(Confs, MaxConfs)}

\* a vector left as it is
VectorClearSkipped(v) == v

\* masses_.clear() / probabilities_.clear()
VectorClear(v) == <<>>

\* copy(&arr[0], &arr[size], back_inserter(v))
CopyBackInserter(arr, size, v) == v \o SubSeq(arr, 1, size)

\* IsoSpec::run_(iso) with t the tabulator built for iso: the two members
\* after the call
run_(t) ==
  LET size == t.confs_no
  IN <<CopyBackInserter(t.masses, size, VectorClear(masses_)),
       CopyBackInserter(t.probs, size, VectorClear(probabilities_))>>

\* std::vector<double> IsoSpec::getMasses() / getProbabilities()
getMasses == masses_

getProbabilities == probabilities_

\* a test that lets a zero probability through
AllProbabilitiesNonNegative(isotopeProbabilities) ==
  \A i \in DOMAIN isotopeProbabilities :
    \A j \in DOMAIN isotopeProbabilities[i] : isotopeProbabilities[i][j] >= 0

\* all_of over isotopeProbabilities of all_of over prob of p > 0.0
AllProbabilitiesPositive(isotopeProbabilities) ==
  \A i \in DOMAIN isotopeProbabilities :
    \A j \in DOMAIN isotopeProbabilities[i] : isotopeProbabilities[i][j] > 0

\* the conditions of the three OPENMS_PRECONDITION lines
SameSizes(a) ==
  /\ Len(a.isotopeNr) = Len(a.atomCounts)
  /\ Len(a.isotopeNr) = Len(a.isotopeMasses)
  /\ Len(a.isotopeNr) = Len(a.isotopeProbabilities)

\* the loop over i < dimNumber and the Iso constructor read past the end of a
\* vector that is shorter than dimNumber
ReadsPastEnd(a) ==
  LET dimNumber == Len(a.isotopeNr)
  IN \/ Len(a.isotopeMasses) < dimNumber
     \/ Len(a.isotopeProbabilities) < dimNumber
     \/ Len(a.atomCounts) < dimNumber

\* the arguments of run(isotopeNr, atomCounts, isotopeMasses,
\* isotopeProbabilities): one element with two isotopes, probabilities in
\* percent, with vectors of the wrong size and probabilities that are zero or
\* negative among them
VectorArgs ==
  [isotopeNr : {<<2>>},
   atomCounts : {<<6>>, <<>>, <<6, 12>>},
   isotopeMasses : {<<<<12, 13>>>>},
   isotopeProbabilities : {<<<<99, 1>>>>, <<<<100, 0>>>>, <<<<101, -1>>>>,
                           <<>>, <<<<99, 1>>, <<0, 100>>>>}]

\* the formulas handed to run(formula)
Formulas == {"C6H12O6", "H2O"}

\* the thresholds handed to IsoSpec(double threshold), in hundredths
ThresholdArgs == {5}

\* an IsoSpec object after either constructor, in a build with or without
\* the precondition macros
InitIso ==
  /\ pc = "iso"
  /\ param = Defaults
  /\ requested = Defaults
  /\ raised = 0
  /\ order = <<>>
  /\ inserted = <<>>
  /\ running = {}
  /\ inflight = <<>>
  /\ fgAtCall = <<>>
  /\ bpGraph = <<>>
  /\ bpScheduler = <<>>
  /\ messages = <<>>
  /\ queue = <<>>
  /\ iterations = 0
  /\ warnings = <<>>
  /\ estimated = <<>>
  /\ fg = InputGraph
  /\ ccs = <<>>
  /\ pending = {}
  /\ counterIndex = <<0, 0, 0>>
  /\ bestValue = StartValue
  /\ bestParams = <<0, 0, 0>>
  /\ indistGroups = <<>>
  /\ evalLog = <<>>
  /\ lastRun = <<>>
  /\ pgFormed = <<>>
  /\ annotCount = <<>>
  /\ threshold_ \in {DefaultThreshold} \cup ThresholdArgs
  /\ absolute_ = FALSE
  /\ masses_ = <<>>
  /\ probabilities_ = <<>>
  /\ assertions \in BOOLEAN
  /\ isoLast = NoCall

\* IsoSpec::run(formula): new Iso(formula), then run_
RunFormula(formula) ==
  /\ pc = "iso"
  /\ \E t \in TabulatorResults :
       /\ masses_' = run_(t)[1]
       /\ probabilities_' = run_(t)[2]
       /\ isoLast' = [op |-> "run_formula", outcome |-> "returned",
                      args |-> formula,
                      before |-> <<masses_, probabilities_>>, result |-> t]
  /\ UNCHANGED <<pc, threshold_, absolute_, assertions>>
  /\ UNCHANGED <<runVars, builderVars, parVars, lbpVars>>

\* IsoSpec::run(isotopeNr, atomCounts, isotopeMasses, isotopeProbabilities)
RunVectors(a) ==
  /\ pc = "iso"
  /\ IF assertions /\ ~SameSizes(a)
       THEN /\ isoLast' = [op |-> "run_vectors", outcome |-> "Precondition",
                           args |-> a,
                           before |-> <<masses_, probabilities_>>,
                           result |-> <<>>]
            /\ UNCHANGED <<pc, masses_, probabilities_>>
     ELSE IF ~AllProbabilitiesPositive(a.isotopeProbabilities)
       THEN /\ isoLast' = [op |-> "run_vectors", outcome |-> "IllegalArgument",
                           args |-> a,
                           before |-> <<masses_, probabilities_>>,
                           result |-> <<>>]
            /\ UNCHANGED <<pc, masses_, probabilities_>>
     ELSE \/ /\ ReadsPastEnd(a)
             /\ pc' = "iso_crashed"
             /\ isoLast' = [op |-> "run_vectors", outcome |-> "crashed",
                            args |-> a,
                            before |-> <<masses_, probabilities_>>,
                            result |-> <<>>]
             /\ UNCHANGED <<masses_, probabilities_>>
          \/ \E t \in TabulatorResults :
               /\ masses_' = run_(t)[1]
               /\ probabilities_' = run_(t)[2]
               /\ isoLast' = [op |-> "run_vectors", outcome |-> "returned",
                              args |-> a,
                              before |-> <<masses_, probabilities_>>,
                              result |-> t]
               /\ UNCHANGED pc
  /\ UNCHANGED <<threshold_, absolute_, assertions>>
  /\ UNCHANGED <<param, fg, ccs, pending, counterIndex, bestValue, bestParams,
                 indistGroups, evalLog, lastRun, pgFormed, annotCount,
                 requested, raised, builderVars, parVars, lbpVars>>

NextIso ==
  \/ \E formula \in Formulas : RunFormula(formula)
  \/ \E a \in VectorArgs : RunVectors(a)

SpecIso == InitIso /\ [][NextIso]_vars

----------------------------------------------------------------------------
(* IsoSpec::run: the probability check and the stored results *)

\* the latest call was run with explicit isotope vectors of which some
\* probability is not strictly greater than zero
RunWithBadProbability ==
  /\ isoLast.op = "run_vectors"
  /\ \E i \in DOMAIN isoLast.args.isotopeProbabilities :
       \E j \in DOMAIN isoLast.args.isotopeProbabilities[i] :
         isoLast.args.isotopeProbabilities[i][j] <= 0

\* C25 as stated: IsoSpec::run with explicit isotope vectors throws
\* IllegalArgument when any isotope probability is not strictly greater than
\* zero, and the stored masses and probabilities are then unchanged from
\* before the call
C25_BadProbabilityThrowsIllegalArgument ==
  RunWithBadProbability =>
    /\ isoLast.outcome = "IllegalArgument"
    /\ <<getMasses, getProbabilities>> = isoLast.before

\* C25, amended: a run with explicit isotope vectors of which some
\* probability is not strictly greater than zero always throws and leaves
\* the stored masses and probabilities as they were before the call; the
\* exception is IllegalArgument, except that a build with the precondition
\* macros compiled in throws Precondition first when the four vectors are
\* not of the same size
C25_BadProbabilityThrowsAndLeavesState ==
  RunWithBadProbability =>
    /\ isoLast.outcome =
         IF assertions /\ ~SameSizes(isoLast.args)
           THEN "Precondition" ELSE "IllegalArgument"
    /\ <<getMasses, getProbabilities>> = isoLast.before

\* a run with a zero probability has thrown IllegalArgument on an object that
\* holds the results of an earlier run
C25_Witness ==
  /\ RunWithBadProbability
  /\ isoLast.outcome = "IllegalArgument"
  /\ isoLast.before # <<<<>>, <<>>>>
  /\ getMasses = isoLast.before[1]
  /\ getProbabilities = isoLast.before[2]

\* C26: after any sequence of successful IsoSpec::run calls getMasses() and
\* getProbabilities() have the same length, equal to the number of
\* configurations of the most recent run, and hold only that run's results:
\* the results of earlier runs are replaced, never added to
C26_ResultsOfLatestRunOnly ==
  /\ Len(getMasses) = Len(getProbabilities)
  /\ isoLast.outcome = "returned" =>
       /\ Len(getMasses) = isoLast.result.confs_no
       /\ getMasses = isoLast.result.masses
       /\ getProbabilities = isoLast.result.probs

\* a run has returned on an object that held the results of an earlier run
\* with more configurations
C26_Witness ==
  /\ isoLast.outcome = "returned"
  /\ Len(isoLast.before[1]) > isoLast.result.confs_no
  /\ isoLast.result.confs_no > 0
  /\ getMasses = isoLast.result.masses
  /\ getMasses # isoLast.before[1]

====
